---- MODULE Spec2Model ----
(***************************************************************************)
(* Model of the payment engine: src/src/state.rs (CurrentState and its     *)
(* add / check_regular / check_irregular / process_from_csv / into_csv),   *)
(* src/src/transaction.rs (the record validator) and src/src/main.rs.      *)
(*                                                                         *)
(* Decimal amounts are modelled as integers (a count of the smallest unit);*)
(* Option<Decimal> is a sequence of length 0 (None) or 1 (Some).           *)
(***************************************************************************)
EXTENDS Integers, Sequences, FiniteSets, TLC

\* ------------------------------------------------------------------ bounds
MaxClient == 2
MaxId == 2
MaxAmount == 2
MaxRows == 4

\* ------------------------------------------------------------ value spaces
TransactionType == {"withdrawal", "deposit", "dispute", "resolve", "chargeback"}

ClientIds == 1..MaxClient

TxIds == 1..MaxId

None == << >>

Some(a) == << a >>

unwrap(o) == o[1]

is_none(o) == o = None

\* amounts a CSV row can carry: blank, or a decimal (negative and zero included)
RawAmounts == {None} \cup {Some(a) : a \in (-1)..MaxAmount}

TransactionUnchecked == [type : TransactionType, client : ClientIds, id : TxIds, amount : RawAmounts]

\* --------------------------------------------------------------- HashMap
EmptyMap == [k \in {} |-> 0]

contains_key(m, k) == k \in DOMAIN m

insert(m, k, v) == [x \in (DOMAIN m) \cup {k} |-> IF x = k THEN v ELSE m[x]]

remove(m, k) == [x \in (DOMAIN m) \ {k} |-> m[x]]

\* ---------------------------------------------------------------- results
Ok == [tag |-> "Ok", id |-> 0]

Err(tag, id) == [tag |-> tag, id |-> id]

Panic == [tag |-> "panic", id |-> 0]

NoError == [tag |-> "none", cause |-> "none", id |-> 0]

CsvError(cause, id) == [tag |-> "Csv", cause |-> cause, id |-> id]

\* --------------------------------------------------------- transaction.rs
from_unchecked(tx) == [type |-> tx.type, client |-> tx.client, id |-> tx.id, amount |-> tx.amount]

\* try_from with the amount test written as < 0 (a zero amount passes)
try_from_lt(tx) ==
    IF tx.type \in {"deposit", "withdrawal"}
    THEN IF is_none(tx.amount)
         THEN [res |-> Err("MissingAmount", tx.id), tx |-> tx]
         ELSE IF unwrap(tx.amount) < 0
              THEN [res |-> Err("AmountNotPositive", tx.id), tx |-> tx]
              ELSE [res |-> Ok, tx |-> from_unchecked(tx)]
    ELSE IF is_none(tx.amount)
         THEN [res |-> Ok, tx |-> from_unchecked(tx)]
         ELSE [res |-> Err("SuperfluousAmount", tx.id), tx |-> tx]

\* try_from that lets a Deposit/Withdrawal without an amount through
try_from_no_missing(tx) ==
    IF tx.type \in {"deposit", "withdrawal"}
    THEN IF ~is_none(tx.amount) /\ unwrap(tx.amount) <= 0
         THEN [res |-> Err("AmountNotPositive", tx.id), tx |-> tx]
         ELSE [res |-> Ok, tx |-> from_unchecked(tx)]
    ELSE IF is_none(tx.amount)
         THEN [res |-> Ok, tx |-> from_unchecked(tx)]
         ELSE [res |-> Err("SuperfluousAmount", tx.id), tx |-> tx]

try_from(tx) ==
    IF tx.type \in {"deposit", "withdrawal"}
    THEN IF is_none(tx.amount)
         THEN [res |-> Err("MissingAmount", tx.id), tx |-> tx]
         ELSE IF unwrap(tx.amount) <= 0
              THEN [res |-> Err("AmountNotPositive", tx.id), tx |-> tx]
              ELSE [res |-> Ok, tx |-> from_unchecked(tx)]
    ELSE IF is_none(tx.amount)
         THEN [res |-> Ok, tx |-> from_unchecked(tx)]
         ELSE [res |-> Err("SuperfluousAmount", tx.id), tx |-> tx]

\* --------------------------------------------------------------- state.rs
from_id(id) == [id |-> id, available |-> 0, held |-> 0, locked |-> FALSE]

\* CsvClient with total taken from held alone
CsvClient_held_total(c) ==
    [client |-> c.id, available |-> c.available, held |-> c.held,
     total |-> c.held, locked |-> c.locked]

CsvClient(c) ==
    [client |-> c.id, available |-> c.available, held |-> c.held,
     total |-> c.available + c.held, locked |-> c.locked]

\* CurrentState::default()
Default == [transactions |-> EmptyMap, disputes |-> EmptyMap, client_states |-> EmptyMap]

\* entry(k).or_insert_with(|| Client::from_id(k))
or_insert_with(m, k) == IF contains_key(m, k) THEN m ELSE insert(m, k, from_id(k))

check_regular(st, tx) ==
    IF contains_key(st.transactions, tx.id)
    THEN [st |-> st, res |-> Err("AlreadyExists", tx.id)]
    ELSE LET st1 == [st EXCEPT !.client_states = or_insert_with(st.client_states, tx.client)]
         IN  IF st1.client_states[tx.client].locked
             THEN [st |-> st1, res |-> Err("Locked", tx.id)]
             ELSE [st |-> st1, res |-> Ok]

\* check_irregular with the dispute-marker test moved ahead of the Ledger lookup
check_irregular_marker_first(st, tx) ==
    IF tx.type # "dispute" /\ ~contains_key(st.disputes, tx.id)
    THEN [st |-> st, res |-> Err("NoxexistentDispute", tx.id), rtx |-> tx]
    ELSE IF tx.type = "dispute" /\ contains_key(st.disputes, tx.id)
    THEN [st |-> st, res |-> Err("DisputeAlreadyExists", tx.id), rtx |-> tx]
    ELSE IF ~contains_key(st.transactions, tx.id)
    THEN [st |-> st, res |-> Err("NonexistentTransaction", tx.id), rtx |-> tx]
    ELSE LET rtx == st.transactions[tx.id]
         IN  IF tx.client # rtx.client
             THEN [st |-> st, res |-> Err("ClientMismatch", tx.id), rtx |-> rtx]
             ELSE IF ~contains_key(st.client_states, tx.client)
             THEN [st |-> st, res |-> Panic, rtx |-> rtx]
             ELSE IF st.client_states[tx.client].locked
             THEN [st |-> st, res |-> Err("Locked", tx.id), rtx |-> rtx]
             ELSE [st |-> [st EXCEPT !.disputes = remove(st.disputes, tx.id)],
                   res |-> Ok, rtx |-> rtx]

check_irregular(st, tx) ==
    IF ~contains_key(st.transactions, tx.id)
    THEN [st |-> st, res |-> Err("NonexistentTransaction", tx.id), rtx |-> tx]
    ELSE LET rtx == st.transactions[tx.id]
         IN  IF tx.client # rtx.client
             THEN [st |-> st, res |-> Err("ClientMismatch", tx.id), rtx |-> rtx]
             ELSE IF ~contains_key(st.client_states, tx.client)
             THEN [st |-> st, res |-> Panic, rtx |-> rtx]
             ELSE IF st.client_states[tx.client].locked
             THEN [st |-> st, res |-> Err("Locked", tx.id), rtx |-> rtx]
             ELSE IF tx.type # "dispute"
             THEN IF ~contains_key(st.disputes, tx.id)
                  THEN [st |-> st, res |-> Err("NoxexistentDispute", tx.id), rtx |-> rtx]
                  ELSE [st |-> [st EXCEPT !.disputes = remove(st.disputes, tx.id)],
                        res |-> Ok, rtx |-> rtx]
             ELSE IF contains_key(st.disputes, tx.id)
             THEN [st |-> st, res |-> Err("DisputeAlreadyExists", tx.id), rtx |-> rtx]
             ELSE [st |-> st, res |-> Ok, rtx |-> rtx]

\* add_withdrawal with the funds test written as > (a withdrawal of the whole
\* available balance goes through)
add_withdrawal_gt(st, tx) ==
    LET c == check_regular(st, tx)
    IN  IF c.res # Ok THEN [st |-> c.st, res |-> c.res]
        ELSE IF is_none(tx.amount) THEN [st |-> c.st, res |-> Panic]
        ELSE IF unwrap(tx.amount) > c.st.client_states[tx.client].available
        THEN [st |-> c.st, res |-> Err("InsufficientFunds", tx.id)]
        ELSE [st |-> [c.st EXCEPT !.client_states[tx.client].available = @ - unwrap(tx.amount)],
              res |-> Ok]

\* add_withdrawal with the balance lowered before the funds test
add_withdrawal_early(st, tx) ==
    LET c == check_regular(st, tx)
        lowered == [c.st EXCEPT !.client_states[tx.client].available = @ - unwrap(tx.amount)]
    IN  IF c.res # Ok THEN [st |-> c.st, res |-> c.res]
        ELSE IF is_none(tx.amount) THEN [st |-> c.st, res |-> Panic]
        ELSE IF unwrap(tx.amount) >= c.st.client_states[tx.client].available
        THEN [st |-> lowered, res |-> Err("InsufficientFunds", tx.id)]
        ELSE [st |-> lowered, res |-> Ok]

\* add_withdrawal that hands back the state it was given when funds are short
\* (dropping the account check_regular created)
add_withdrawal_rollback(st, tx) ==
    LET c == check_regular(st, tx)
    IN  IF c.res # Ok THEN [st |-> c.st, res |-> c.res]
        ELSE IF is_none(tx.amount) THEN [st |-> c.st, res |-> Panic]
        ELSE IF unwrap(tx.amount) >= c.st.client_states[tx.client].available
        THEN [st |-> st, res |-> Err("InsufficientFunds", tx.id)]
        ELSE [st |-> [c.st EXCEPT !.client_states[tx.client].available = @ - unwrap(tx.amount)],
              res |-> Ok]

add_withdrawal(st, tx) ==
    LET c == check_regular(st, tx)
    IN  IF c.res # Ok THEN [st |-> c.st, res |-> c.res]
        ELSE IF is_none(tx.amount) THEN [st |-> c.st, res |-> Panic]
        ELSE IF unwrap(tx.amount) >= c.st.client_states[tx.client].available
        THEN [st |-> c.st, res |-> Err("InsufficientFunds", tx.id)]
        ELSE [st |-> [c.st EXCEPT !.client_states[tx.client].available = @ - unwrap(tx.amount)],
              res |-> Ok]

\* add_deposit that credits held instead of available
add_deposit_held(st, tx) ==
    LET c == check_regular(st, tx)
    IN  IF c.res # Ok THEN [st |-> c.st, res |-> c.res]
        ELSE IF is_none(tx.amount) THEN [st |-> c.st, res |-> Panic]
        ELSE [st |-> [c.st EXCEPT !.client_states[tx.client].held = @ + unwrap(tx.amount)],
              res |-> Ok]

add_deposit(st, tx) ==
    LET c == check_regular(st, tx)
    IN  IF c.res # Ok THEN [st |-> c.st, res |-> c.res]
        ELSE IF is_none(tx.amount) THEN [st |-> c.st, res |-> Panic]
        ELSE [st |-> [c.st EXCEPT !.client_states[tx.client].available = @ + unwrap(tx.amount)],
              res |-> Ok]

add_dispute(st, tx) ==
    LET c == check_irregular(st, tx)
    IN  IF c.res # Ok THEN [st |-> c.st, res |-> c.res]
        ELSE IF is_none(c.rtx.amount) THEN [st |-> c.st, res |-> Panic]
        ELSE [st |-> [c.st EXCEPT !.client_states[tx.client].held = @ + unwrap(c.rtx.amount),
                                  !.client_states[tx.client].available = @ - unwrap(c.rtx.amount),
                                  !.disputes = insert(@, tx.id, tx)],
              res |-> Ok]

add_resolve(st, tx) ==
    LET c == check_irregular(st, tx)
    IN  IF c.res # Ok THEN [st |-> c.st, res |-> c.res]
        ELSE IF is_none(c.rtx.amount) THEN [st |-> c.st, res |-> Panic]
        ELSE [st |-> [c.st EXCEPT !.client_states[tx.client].held = @ + unwrap(c.rtx.amount),
                                  !.client_states[tx.client].available = @ - unwrap(c.rtx.amount)],
              res |-> Ok]

add_chargeback(st, tx) ==
    LET c == check_irregular(st, tx)
    IN  IF c.res # Ok THEN [st |-> c.st, res |-> c.res]
        ELSE IF is_none(c.rtx.amount) THEN [st |-> c.st, res |-> Panic]
        ELSE [st |-> [c.st EXCEPT !.client_states[tx.client].locked = TRUE,
                                  !.client_states[tx.client].held = @ - unwrap(c.rtx.amount)],
              res |-> Ok]

add(st, tx) ==
    CASE tx.type = "withdrawal" -> add_withdrawal(st, tx)
      [] tx.type = "deposit"    -> add_deposit(st, tx)
      [] tx.type = "dispute"    -> add_dispute(st, tx)
      [] tx.type = "resolve"    -> add_resolve(st, tx)
      [] tx.type = "chargeback" -> add_chargeback(st, tx)

\* ------------------------------------------------------------------ state
VARIABLES
    transactions,   \* CurrentState.transactions : HashMap<u32, Transaction>
    disputes,       \* CurrentState.disputes : HashMap<u32, Transaction>
    client_states,  \* CurrentState.client_states : HashMap<u16, Client>
    pc,             \* position of main: "reading", "done", "exported", "aborted", "panicked"
    nread,          \* number of rows taken from the reader so far
    raw,            \* the TransactionUnchecked most recently deserialized
    cur,            \* the row most recently handed to add
    result,         \* what add returned for cur
    error,          \* the Err process_from_csv returned, NoError otherwise
    output,         \* the records into_csv wrote
    log,            \* the rows handed to add so far, each with add's result
    logging         \* whether log is kept

vars == << transactions, disputes, client_states, pc, nread, raw, cur, result, error, output, log, logging >>

State == [transactions |-> transactions, disputes |-> disputes, client_states |-> client_states]

NoRow == [type |-> "none", client |-> 0, id |-> 0, amount |-> None]

InitState ==
    /\ transactions = Default.transactions
    /\ disputes = Default.disputes
    /\ client_states = Default.client_states
    /\ pc = "reading"
    /\ nread = 0
    /\ raw = NoRow
    /\ cur = NoRow
    /\ result = Ok
    /\ error = NoError
    /\ output = << >>
    /\ log = << >>

Init == InitState /\ logging = FALSE

InitLog == InitState /\ logging = TRUE

\* one iteration of the try_for_each closure on a row the reader could frame
ReadRecord ==
    /\ pc = "reading"
    /\ nread < MaxRows
    /\ \E row \in TransactionUnchecked :
         LET v == try_from(row)
         IN  /\ raw' = row
             /\ IF v.res # Ok
                THEN /\ pc' = "aborted"
                     /\ error' = CsvError(v.res.tag, v.res.id)
                     /\ nread' = nread + 1
                     /\ UNCHANGED << transactions, disputes, client_states, cur, result, output, log, logging >>
                ELSE LET r == add(State, v.tx)
                     IN  /\ transactions' = r.st.transactions
                         /\ disputes' = r.st.disputes
                         /\ client_states' = r.st.client_states
                         /\ cur' = v.tx
                         /\ result' = r.res
                         /\ pc' = IF r.res = Panic THEN "panicked" ELSE "reading"
                         /\ nread' = nread + 1
                         /\ log' = IF logging THEN Append(log, [tx |-> v.tx, res |-> r.res]) ELSE log
                         /\ UNCHANGED << error, output, logging >>

\* one iteration of the closure on a row the reader could not frame or parse
ReadMalformed ==
    /\ pc = "reading"
    /\ nread < MaxRows
    /\ pc' = "aborted"
    /\ error' = CsvError("Malformed", 0)
    /\ nread' = nread + 1
    /\ UNCHANGED << transactions, disputes, client_states, raw, cur, result, output, log, logging >>

\* the reader is exhausted: process_from_csv returns Ok(())
EndOfStream ==
    /\ pc = "reading"
    /\ pc' = "done"
    /\ UNCHANGED << transactions, disputes, client_states, nread, raw, cur, result, error, output, log, logging >>

RECURSIVE Orders(_)
Orders(S) ==
    IF S = {} THEN { << >> }
    ELSE UNION { { << k >> \o o : o \in Orders(S \ {k}) } : k \in S }

into_csv(cs, order) == [i \in 1..Len(order) |-> CsvClient(cs[order[i]])]

IntoCsv ==
    /\ pc = "done"
    /\ \E order \in Orders(DOMAIN client_states) : output' = into_csv(client_states, order)
    /\ pc' = "exported"
    /\ UNCHANGED << transactions, disputes, client_states, nread, raw, cur, result, error, log, logging >>

Next == ReadRecord \/ ReadMalformed \/ EndOfStream \/ IntoCsv

Spec == Init /\ [][Next]_vars

SpecLog == InitLog /\ [][Next]_vars

\* ================================================================ claims
\* the account of client c as add sees it: the stored one, or the one
\* check_regular would create
Acct(cs, c) == IF contains_key(cs, c) THEN cs[c] ELSE from_id(c)

\* this step handed a validated row (cur') to add, which returned result'
Handed == nread' = nread + 1 /\ error' = error

Regular == {"deposit", "withdrawal"}

\* by the rows seen so far, X was accepted as a deposit/withdrawal of c
AcceptedAt(i, X, c) ==
    /\ log[i].tx.type \in Regular
    /\ log[i].res = Ok
    /\ log[i].tx.id = X
    /\ log[i].tx.client = c

\* by the rows seen so far, X of client c is under dispute: accepted, then
\* disputed by c, with no resolve/chargeback of X since
DisputedByLog(X, c) ==
    \E i \in 1..Len(log) : \E j \in (i + 1)..Len(log) :
        /\ AcceptedAt(i, X, c)
        /\ log[j].tx.type = "dispute" /\ log[j].tx.id = X /\ log[j].tx.client = c
        /\ \A k \in (j + 1)..Len(log) :
              ~(log[k].tx.id = X /\ log[k].tx.type \in {"resolve", "chargeback"})

NoChargebackByLog(c) ==
    \A k \in 1..Len(log) : ~(log[k].tx.type = "chargeback" /\ log[k].tx.client = c)

\* the rows handed to add so far are exactly txs
RowsAre(txs) == Len(log) = Len(txs) /\ \A i \in 1..Len(txs) : log[i].tx = txs[i]

Row(type, client, id, amount) == [type |-> type, client |-> client, id |-> id, amount |-> amount]

\* C1: an accepted Deposit(id, client, amt) raises available by exactly amt,
\* leaves held and locked alone, and the Ledger then maps id to a transaction
\* of that client and amount.
C1_DepositRecorded ==
    [][(Handed /\ cur'.type = "deposit" /\ result' = Ok) =>
        LET c == cur'.client
        IN  /\ client_states'[c].available = Acct(client_states, c).available + unwrap(cur'.amount)
            /\ client_states'[c].held = Acct(client_states, c).held
            /\ client_states'[c].locked = Acct(client_states, c).locked
            /\ contains_key(transactions', cur'.id)
            /\ transactions'[cur'.id].client = c
            /\ transactions'[cur'.id].amount = cur'.amount]_vars

\* C2: a Withdrawal with a fresh id on an unlocked account is rejected with
\* InsufficientFunds, leaving the account's available, held and locked alone,
\* when amt >= available (amt = available included), and is accepted with
\* available lowered by exactly amt when amt < available.
C2_WithdrawalBoundary ==
    [][(/\ Handed
        /\ cur'.type = "withdrawal"
        /\ ~contains_key(transactions, cur'.id)
        /\ ~Acct(client_states, cur'.client).locked) =>
        LET c == cur'.client
            before == Acct(client_states, c)
            amt == unwrap(cur'.amount)
        IN  IF amt >= before.available
            THEN /\ result' = Err("InsufficientFunds", cur'.id)
                 /\ client_states'[c] = before
            ELSE /\ result' = Ok
                 /\ client_states'[c] = [before EXCEPT !.available = @ - amt]]_vars

\* C2 witness: a withdrawal of exactly the (positive) available balance was rejected
C2_Witness ==
    /\ cur.type = "withdrawal"
    /\ result = Err("InsufficientFunds", cur.id)
    /\ client_states[cur.client].available = unwrap(cur.amount)

\* C3: once Deposit(X, c, A) was accepted, a Dispute(X, c) on the unlocked
\* account with no active dispute on X is accepted: held rises by A, available
\* falls by A and X is marked as disputed.
C3_DisputeAfterDeposit ==
    [][(/\ Handed
        /\ cur'.type = "dispute"
        /\ ~Acct(client_states, cur'.client).locked
        /\ ~contains_key(disputes, cur'.id)) =>
        \A i \in 1..Len(log) :
            (AcceptedAt(i, cur'.id, cur'.client) /\ log[i].tx.type = "deposit") =>
                LET c == cur'.client
                    A == unwrap(log[i].tx.amount)
                IN  /\ result' = Ok
                    /\ client_states'[c].held = client_states[c].held + A
                    /\ client_states'[c].available = client_states[c].available - A
                    /\ contains_key(disputes', cur'.id)]_vars

\* C4: a Chargeback on a disputed X locks the account, lowers held by the
\* amount of X, leaves available alone and clears the marker of X: after
\* deposit A, dispute, chargeback the account has available 0, held 0 and is locked.
C4_ChargebackLocks ==
    \A c \in ClientIds : \A X \in TxIds : \A A \in 1..MaxAmount :
        RowsAre(<< Row("deposit", c, X, Some(A)), Row("dispute", c, X, None),
                   Row("chargeback", c, X, None) >>) =>
            /\ client_states[c] = [id |-> c, available |-> 0, held |-> 0, locked |-> TRUE]
            /\ ~contains_key(disputes, X)

\* C5: a Resolve on a disputed X of an unlocked account is accepted, lowers
\* held by the amount of X, raises available by the same amount and clears the
\* marker of X.
C5_ResolveUndoesDispute ==
    [][(/\ Handed
        /\ cur'.type = "resolve"
        /\ DisputedByLog(cur'.id, cur'.client)
        /\ NoChargebackByLog(cur'.client)
        /\ ~Acct(client_states, cur'.client).locked) =>
        \A i \in 1..Len(log) :
            AcceptedAt(i, cur'.id, cur'.client) =>
                LET c == cur'.client
                    A == unwrap(log[i].tx.amount)
                IN  /\ result' = Ok
                    /\ client_states'[c].held = client_states[c].held - A
                    /\ client_states'[c].available = client_states[c].available + A
                    /\ ~contains_key(disputes', cur'.id)]_vars

C7_RejectChangesNothing ==
    [][(Handed /\ result' # Ok) =>
        /\ transactions' = transactions
        /\ disputes' = disputes
        /\ client_states' = client_states]_vars

\* C7 (amended): whenever add rejects an event, the Ledger, the dispute markers
\* and every existing account are exactly as before the call; the only change a
\* rejection can make is that a Withdrawal rejected with InsufficientFunds for a
\* client with no account adds that account with zero balances, unlocked.
C7_RejectOnlyCreatesAccount ==
    [][(Handed /\ result' # Ok) =>
        /\ transactions' = transactions
        /\ disputes' = disputes
        /\ \A c \in DOMAIN client_states : client_states'[c] = client_states[c]
        /\ \/ DOMAIN client_states' = DOMAIN client_states
           \/ /\ cur'.type = "withdrawal"
              /\ result' = Err("InsufficientFunds", cur'.id)
              /\ DOMAIN client_states' = (DOMAIN client_states) \cup {cur'.client}
              /\ client_states'[cur'.client] = from_id(cur'.client)]_vars

\* C7 witness: a withdrawal was rejected on an account holding funds, which it
\* left in place, while another account exists
C7_Witness ==
    /\ pc = "reading"
    /\ cur.type = "withdrawal"
    /\ result = Err("InsufficientFunds", cur.id)
    /\ client_states[cur.client].available > 0
    /\ Cardinality(DOMAIN client_states) > 1

\* C8: a row that fails validation (MissingAmount, AmountNotPositive,
\* SuperfluousAmount) or an engine precondition never aborts the run.
C8_InvalidRowNeverAborts ==
    pc = "aborted" => error.cause \notin {"MissingAmount", "AmountNotPositive", "SuperfluousAmount"}

\* C9: a Deposit or Withdrawal reusing the id of an earlier accepted Deposit or
\* Withdrawal (of any client) is rejected with AlreadyExists and changes no balance.
C9_DuplicateIdRejected ==
    [][(/\ Handed
        /\ cur'.type \in Regular
        /\ \E i \in 1..Len(log) : \E c \in ClientIds : AcceptedAt(i, cur'.id, c)) =>
        /\ result' = Err("AlreadyExists", cur'.id)
        /\ client_states' = client_states]_vars

\* C10: a second Dispute on X while X is still under dispute is rejected with
\* DisputeAlreadyExists(X) and leaves held, available and the marker alone.
C10_SecondDisputeRejected ==
    [][(/\ Handed
        /\ cur'.type = "dispute"
        /\ DisputedByLog(cur'.id, cur'.client)
        /\ NoChargebackByLog(cur'.client)) =>
        /\ result' = Err("DisputeAlreadyExists", cur'.id)
        /\ client_states' = client_states
        /\ disputes' = disputes]_vars

\* this step deserialized a row the reader could frame (raw')
Deserialized == nread' = nread + 1 /\ error'.cause # "Malformed"

\* C11: the validator accepts a record iff its kind/amount pair is well formed:
\* Deposit/Withdrawal with no amount fails with MissingAmount(id), with an
\* amount <= 0 fails with AmountNotPositive(id); Dispute/Resolve/Chargeback
\* with an amount fails with SuperfluousAmount(id); every other record is
\* accepted with its fields unchanged.
C11_ValidatorContract ==
    [][Deserialized =>
        IF raw'.type \in Regular
        THEN IF raw'.amount = None
             THEN pc' = "aborted" /\ error' = CsvError("MissingAmount", raw'.id)
             ELSE IF raw'.amount[1] <= 0
                  THEN pc' = "aborted" /\ error' = CsvError("AmountNotPositive", raw'.id)
                  ELSE error' = NoError /\ cur' = raw'
        ELSE IF raw'.amount # None
             THEN pc' = "aborted" /\ error' = CsvError("SuperfluousAmount", raw'.id)
             ELSE error' = NoError /\ cur' = raw']_vars

\* C11 witness: a deposit or withdrawal carrying the amount 0 was refused
C11_Witness ==
    /\ raw.type \in Regular
    /\ raw.amount = Some(0)
    /\ error = CsvError("AmountNotPositive", raw.id)

\* C12: the snapshot into_csv writes holds exactly one record per account of the
\* Registry; each record's available, held and locked are the account's and its
\* total is available + held.
C12_SnapshotMatchesRegistry ==
    pc = "exported" =>
        /\ Len(output) = Cardinality(DOMAIN client_states)
        /\ \A i \in 1..Len(output) : output[i].client \in DOMAIN client_states
        /\ \A c \in DOMAIN client_states :
              \E i \in 1..Len(output) :
                  /\ output[i].client = c
                  /\ output[i].available = client_states[c].available
                  /\ output[i].held = client_states[c].held
                  /\ output[i].locked = client_states[c].locked
                  /\ output[i].total = client_states[c].available + client_states[c].held

\* C12 witness: a snapshot of two accounts, one of them with funds
C12_Witness ==
    /\ pc = "exported"
    /\ Len(output) = 2
    /\ \E i \in 1..Len(output) : output[i].available > 0

\* the account add leaves behind when the row cur' created it
CreatedAccount ==
    /\ contains_key(client_states', cur'.client)
    /\ client_states'[cur'.client].id = cur'.client
    /\ client_states'[cur'.client].held = 0
    /\ client_states'[cur'.client].locked = FALSE
    /\ client_states'[cur'.client].available = IF cur'.type = "deposit" THEN unwrap(cur'.amount) ELSE 0
    /\ cur'.type = "withdrawal" => result' = Err("InsufficientFunds", cur'.id)

\* the snapshot written in this step holds a record for every account
SnapshotKeepsAccounts ==
    (pc = "done" /\ pc' = "exported") =>
        \A c \in DOMAIN client_states : \E i \in 1..Len(output') :
            /\ output'[i].client = c
            /\ output'[i].available = client_states[c].available
            /\ output'[i].held = client_states[c].held
            /\ output'[i].locked = client_states[c].locked

\* C13 (as stated): an account is created, with zero balances and unlocked, by
\* the first transaction of any kind naming its client, and is never deleted; a
\* Withdrawal for a never-seen client is rejected with InsufficientFunds and the
\* snapshot still holds that client.
C13_CreatedOnFirstReference ==
    [][/\ (DOMAIN client_states) \subseteq (DOMAIN client_states')
       /\ (Handed /\ ~contains_key(client_states, cur'.client)) => CreatedAccount
       /\ SnapshotKeepsAccounts]_vars

\* C13 (amended): an account is created, with zero balances and unlocked, by the
\* first Deposit or Withdrawal naming its client whose id is not in the Ledger;
\* a Dispute, Resolve or Chargeback never creates one; an account is never
\* deleted; a Withdrawal for a never-seen client is rejected with
\* InsufficientFunds and the snapshot still holds that client.
C13_CreatedOnFirstRegular ==
    [][/\ (DOMAIN client_states) \subseteq (DOMAIN client_states')
       /\ (Handed /\ ~contains_key(client_states, cur'.client)) =>
             IF cur'.type \in Regular /\ ~contains_key(transactions, cur'.id)
             THEN CreatedAccount
             ELSE ~contains_key(client_states', cur'.client)
       /\ SnapshotKeepsAccounts]_vars

\* C13 witness: the only row was a withdrawal for a new client, rejected, and
\* the snapshot shows that client with zero balances, unlocked
C13_Witness ==
    /\ pc = "exported"
    /\ nread = 1
    /\ cur.type = "withdrawal"
    /\ result = Err("InsufficientFunds", cur.id)
    /\ output = << [client |-> cur.client, available |-> 0, held |-> 0, total |-> 0, locked |-> FALSE] >>

\* the snapshots into_csv can write from the current Registry
PossibleSnapshots == { into_csv(client_states, order) : order \in Orders(DOMAIN client_states) }

\* C14: the snapshot order is deterministic: two runs over the same input (which
\* reach the same Registry) emit the account records in the same order.
C14_SnapshotOrderDeterministic ==
    pc = "done" => Cardinality(PossibleSnapshots) = 1

\* C16: a Resolve or Chargeback on an accepted transaction X that is not under
\* dispute (never disputed, or its dispute already ended) is rejected with
\* NonexistentDispute(X) and changes no balance, lock flag or marker.
C16_NoDisputeRejected ==
    [][(/\ Handed
        /\ cur'.type \in {"resolve", "chargeback"}
        /\ \E i \in 1..Len(log) : AcceptedAt(i, cur'.id, cur'.client)
        /\ ~DisputedByLog(cur'.id, cur'.client)
        /\ NoChargebackByLog(cur'.client)) =>
        /\ result' = Err("NoxexistentDispute", cur'.id)
        /\ client_states' = client_states
        /\ disputes' = disputes]_vars

\* C17: a Dispute, Resolve or Chargeback naming another client than the one of
\* the accepted transaction it refers to is rejected with ClientMismatch(id);
\* no account is created or modified and no marker changes.
C17_ClientMismatchRejected ==
    [][(/\ Handed
        /\ cur'.type \notin Regular
        /\ \E i \in 1..Len(log) : \E c \in ClientIds \ {cur'.client} : AcceptedAt(i, cur'.id, c)
        /\ ~\E i \in 1..Len(log) : AcceptedAt(i, cur'.id, cur'.client)) =>
        /\ result' = Err("ClientMismatch", cur'.id)
        /\ client_states' = client_states
        /\ disputes' = disputes]_vars

\* the first precondition, in the documented order, that the row tx violates
\* against Ledger tr, markers ds and Registry cs ("Ok" when it violates none)
FirstViolated(tr, ds, cs, tx) ==
    IF tx.type \in Regular
    THEN IF tx.id \in DOMAIN tr THEN "AlreadyExists"
         ELSE IF Acct(cs, tx.client).locked THEN "Locked"
         ELSE IF tx.type = "withdrawal" /\ tx.amount[1] >= Acct(cs, tx.client).available
         THEN "InsufficientFunds"
         ELSE "Ok"
    ELSE IF tx.id \notin DOMAIN tr THEN "NonexistentTransaction"
         ELSE IF tr[tx.id].client # tx.client THEN "ClientMismatch"
         ELSE IF Acct(cs, tx.client).locked THEN "Locked"
         ELSE IF tx.type # "dispute" /\ tx.id \notin DOMAIN ds THEN "NoxexistentDispute"
         ELSE IF tx.type = "dispute" /\ tx.id \in DOMAIN ds THEN "DisputeAlreadyExists"
         ELSE "Ok"

\* C18: every rejection by add carries one reason, the first violated
\* precondition in the order AlreadyExists, Locked, InsufficientFunds for
\* Deposit/Withdrawal and NonexistentTransaction, ClientMismatch, Locked,
\* NonexistentDispute / DisputeAlreadyExists for Dispute/Resolve/Chargeback.
C18_FirstViolatedReason ==
    [][Handed =>
        LET reason == FirstViolated(transactions, disputes, client_states, cur')
        IN  result' = IF reason = "Ok" THEN Ok ELSE Err(reason, cur'.id)]_vars

\* C18 witness: a resolve that violates two preconditions (its id is neither in
\* the Ledger nor under dispute) was rejected with the earlier one
C18_Witness ==
    /\ cur.type = "resolve"
    /\ ~contains_key(transactions, cur.id)
    /\ ~contains_key(disputes, cur.id)
    /\ result = Err("NonexistentTransaction", cur.id)

RECURSIVE SumAmounts(_, _)
SumAmounts(tr, S) ==
    IF S = {} THEN 0
    ELSE LET id == CHOOSE x \in S : TRUE
         IN  tr[id].amount[1] + SumAmounts(tr, S \ {id})

\* the ids of client c that carry a dispute marker
DisputedOf(c) == { id \in DOMAIN disputes : id \in DOMAIN transactions /\ transactions[id].client = c }

====
